---- MODULE Spec2Model ----
(***************************************************************************)
(* Model of the pinyin text engine of learn_mandarin                       *)
(* (src/src/lib/supabase.ts): numberToTone and the TONE_MARKS table.       *)
(*                                                                         *)
(* A JavaScript string is a sequence of characters; a character is a       *)
(* one-element name written in ASCII:                                      *)
(*   "m" "a" "e" "o" "i" "u" "v"   the letters themselves                   *)
(*   "u:"                          u with diaeresis (U+00FC)                *)
(*   "A" "U:"                      upper-case A and U+00DC                  *)
(*   "0" .. "9"                    the decimal digits                       *)
(*   "a_macron" "a_acute" "a_caron" "a_grave"  the four marked variants of  *)
(*                                 a (U+0101 U+00E1 U+01CE U+00E0), and     *)
(*                                 likewise for e, i, o, u and u:           *)
(***************************************************************************)
EXTENDS Integers, Sequences, FiniteSets, TLC

VARIABLES
  pinyin,   \* the string handed to formatPinyin / numberToTone
  result,   \* the string it returned
  pc,       \* where the caller stands
  meaning,  \* the text handed to formatMeaningWithPinyin
  label,    \* the text it returned
  toneMarks,       \* the module's TONE_MARKS object as it is at run time
  characterCache,  \* the module's cache of loaded characters
  calls,    \* the frame of the invocation under way at each call site
  done,     \* the invocations that returned: function, argument, result
  currentView,        \* App: the view shown
  drawerOpen,         \* App: whether the navigation drawer is open
  selectedCharacter,  \* App: the hanzi clicked in the browser, or null
  searchTerm,         \* CharacterLookup: the text of the search field
  characters,         \* CharacterLookup: the characters found
  loading,            \* CharacterLookup: a search is under way
  error,              \* CharacterLookup: the message shown, or null
  notFoundChars,      \* CharacterLookup: the characters not found
  searches,           \* the handleSearch invocations waiting at an await
  clock,              \* what new Date() reads
  event               \* the handler that ran last, with what it was given
                      \* and what it returned

\* The state of the user interface.
ui ==
  <<currentView, drawerOpen, selectedCharacter, searchTerm, characters,
    loading, error, notFoundChars, searches, clock, event>>

vars ==
  <<pinyin, result, pc, meaning, label, toneMarks, characterCache, calls, done,
    ui>>

\* Longest input string drawn for a call.
MaxLen == 3

\* Most parts (single characters, annotations) a meaning is built of.
MaxParts == 4

\* Most invocations started at the call sites in one run.
MaxCalls == 3

\* The latest time the clock reaches.
MaxClock == 1

\* Most searches waiting at an await at one time.
MaxSearches == 2

Digits == {"0", "1", "2", "3", "4", "5", "6", "7", "8", "9"}

LowerLetters == {"m", "a", "e", "o", "i", "u", "u:", "v"}

UpperLetters == {"A", "U:"}

\* The characters an input string is drawn from.
Alphabet == LowerLetters \cup UpperLetters \cup Digits

Strings(n) == UNION {[1..k -> Alphabet] : k \in 0..n}

----------------------------------------------------------------------------
(* String primitives of the JavaScript runtime, as the code uses them.     *)

\* String.prototype.toLowerCase, one character.
toLowerChar(c) ==
  CASE c = "A" -> "a"
    [] c = "U:" -> "u:"
    [] OTHER -> c

\* String.prototype.toLowerCase.
toLowerCase(s) == [k \in 1..Len(s) |-> toLowerChar(s[k])]

\* The regular-expression class \d.
IsDigit(c) == c \in Digits

\* parseInt of a one-digit string.
parseInt(c) ==
  CASE c = "0" -> 0 [] c = "1" -> 1 [] c = "2" -> 2 [] c = "3" -> 3
    [] c = "4" -> 4 [] c = "5" -> 5 [] c = "6" -> 6 [] c = "7" -> 7
    [] c = "8" -> 8 [] c = "9" -> 9

\* String.prototype.includes for a one-character needle.
includes(s, c) == \E k \in 1..Len(s) : s[k] = c

\* The value undefined, coerced to a string where a string is required.
undefined == <<"u", "n", "d", "e", "f", "i", "n", "e", "d">>

\* The position of the first character of s that is in pattern, 0 if none.
search(s, pattern) ==
  IF \E k \in 1..Len(s) : s[k] \in pattern
  THEN CHOOSE k \in 1..Len(s) :
         s[k] \in pattern /\ \A j \in 1..(k - 1) : s[j] \notin pattern
  ELSE 0

\* replace with a global pattern: every match is replaced.
replaceAll(s, pattern, replacement) ==
  LET F[k \in 0..Len(s)] ==
        IF k = 0 THEN <<>>
        ELSE F[k - 1] \o (IF s[k] \in pattern THEN replacement ELSE <<s[k]>>)
  IN F[Len(s)]

\* String.prototype.replace with a non-global pattern matching one character
\* out of a set: only the first match is replaced.
replace(s, pattern, replacement) ==
  LET k == search(s, pattern)
  IN IF k = 0 THEN s
     ELSE SubSeq(s, 1, k - 1) \o replacement \o SubSeq(s, k + 1, Len(s))

----------------------------------------------------------------------------
(* src/src/lib/supabase.ts                                                 *)

\* Tone marks mapping: each row is a four-character string.
TONE_MARKS(key) ==
  CASE key = "a" -> <<"a_macron", "a_acute", "a_caron", "a_grave">>
    [] key = "e" -> <<"e_macron", "e_acute", "e_caron", "e_grave">>
    [] key = "i" -> <<"i_macron", "i_acute", "i_caron", "i_grave">>
    [] key = "o" -> <<"o_macron", "o_acute", "o_caron", "o_grave">>
    [] key = "u" -> <<"u_macron", "u_acute", "u_caron", "u_grave">>
    [] key = "u:" -> <<"u:_macron", "u:_acute", "u:_caron", "u:_grave">>
    [] key = "v" -> <<"u:_macron", "u:_acute", "u:_caron", "u:_grave">>

\* The keys of the object.
ToneMarkKeys == {"a", "e", "i", "o", "u", "u:", "v"}

\* The object the literal of lines 61-69 constructs when the module loads.
ToneMarksObject == [key \in ToneMarkKeys |-> TONE_MARKS(key)]

\* TONE_MARKS[key][tone]: the row indexed by the tone itself.
toneMarkTonePlusOne(key, tone) ==
  IF tone + 1 \in 1..Len(toneMarks[key])
  THEN <<toneMarks[key][tone + 1]>> ELSE undefined

\* TONE_MARKS[key][tone - 1] as a replacement string, read from the object
\* as it is when the call runs: the character at the 0-based index tone - 1
\* of the row, undefined past the end of the row.
toneMark(key, tone) ==
  IF tone \in 1..Len(toneMarks[key])
  THEN <<toneMarks[key][tone]>> ELSE undefined

\* pinyin.match(/(\d)/): the first digit anywhere in the string.
toneMatchUnanchored(s) ==
  LET k == search(s, Digits)
  IN IF k = 0 THEN <<>> ELSE <<s[k], s[k]>>

\* pinyin.match(/(\d)$/): the empty sequence for null, else the match and its
\* group.
toneMatch(s) ==
  IF Len(s) > 0 /\ IsDigit(s[Len(s)])
  THEN <<s[Len(s)], s[Len(s)]>> ELSE <<>>

\* pinyin.replace(/\d+$/, ''): the whole run of trailing digits goes.
removeTrailingDigits(s) ==
  LET R[k \in 0..Len(s)] ==
        IF k > 0 /\ IsDigit(s[k]) THEN R[k - 1] ELSE SubSeq(s, 1, k)
  IN R[Len(s)]

\* A replace whose pattern never matches: the digit stays.
removeToneNumberKeeps(s) == s

\* pinyin.replace(/\d$/, '')
removeToneNumber(s) ==
  IF Len(s) > 0 /\ IsDigit(s[Len(s)]) THEN SubSeq(s, 1, Len(s) - 1) ELSE s

\* The if-chain without the includes('v') half of its first condition.
markVowelNoVCheck(w, tone) ==
  IF includes(w, "u:")
  THEN replace(w, {"u:", "v"}, toneMark("u:", tone))
  ELSE IF includes(w, "a") THEN replace(w, {"a"}, toneMark("a", tone))
  ELSE IF includes(w, "e") THEN replace(w, {"e"}, toneMark("e", tone))
  ELSE IF includes(w, "o") THEN replace(w, {"o"}, toneMark("o", tone))
  ELSE IF includes(w, "i") THEN replace(w, {"i"}, toneMark("i", tone))
  ELSE IF includes(w, "u") THEN replace(w, {"u"}, toneMark("u", tone))
  ELSE w

\* The if-chain with the pattern /u:/ in place of /[u:v]/.
markVowelPatternNoV(w, tone) ==
  IF includes(w, "u:") \/ includes(w, "v")
  THEN replace(w, {"u:"}, toneMark("u:", tone))
  ELSE IF includes(w, "a") THEN replace(w, {"a"}, toneMark("a", tone))
  ELSE IF includes(w, "e") THEN replace(w, {"e"}, toneMark("e", tone))
  ELSE IF includes(w, "o") THEN replace(w, {"o"}, toneMark("o", tone))
  ELSE IF includes(w, "i") THEN replace(w, {"i"}, toneMark("i", tone))
  ELSE IF includes(w, "u") THEN replace(w, {"u"}, toneMark("u", tone))
  ELSE w

\* The if-chain in the order its comment gives: a > e > o > i > u > u:.
markVowelCommentOrder(w, tone) ==
  IF includes(w, "a") THEN replace(w, {"a"}, toneMark("a", tone))
  ELSE IF includes(w, "e") THEN replace(w, {"e"}, toneMark("e", tone))
  ELSE IF includes(w, "o") THEN replace(w, {"o"}, toneMark("o", tone))
  ELSE IF includes(w, "i") THEN replace(w, {"i"}, toneMark("i", tone))
  ELSE IF includes(w, "u") THEN replace(w, {"u"}, toneMark("u", tone))
  ELSE IF includes(w, "u:") \/ includes(w, "v")
  THEN replace(w, {"u:", "v"}, toneMark("u:", tone))
  ELSE w

\* The if-chain whose last return gives back the string with its tone digit.
markVowelFallbackKeepsDigit(w, tone) ==
  IF includes(w, "u:") \/ includes(w, "v")
  THEN replace(w, {"u:", "v"}, toneMark("u:", tone))
  ELSE IF includes(w, "a") THEN replace(w, {"a"}, toneMark("a", tone))
  ELSE IF includes(w, "e") THEN replace(w, {"e"}, toneMark("e", tone))
  ELSE IF includes(w, "o") THEN replace(w, {"o"}, toneMark("o", tone))
  ELSE IF includes(w, "i") THEN replace(w, {"i"}, toneMark("i", tone))
  ELSE IF includes(w, "u") THEN replace(w, {"u"}, toneMark("u", tone))
  ELSE w \o <<(<<"1", "2", "3", "4", "5", "6", "7", "8", "9">>)[tone]>>

\* The if-chain without its return statements: every test that succeeds
\* marks its vowel.
markVowelNoReturn(w, tone) ==
  LET w1 == IF includes(w, "u:") \/ includes(w, "v")
            THEN replace(w, {"u:", "v"}, toneMark("u:", tone)) ELSE w
      w2 == IF includes(w1, "a") THEN replace(w1, {"a"}, toneMark("a", tone)) ELSE w1
      w3 == IF includes(w2, "e") THEN replace(w2, {"e"}, toneMark("e", tone)) ELSE w2
      w4 == IF includes(w3, "o") THEN replace(w3, {"o"}, toneMark("o", tone)) ELSE w3
      w5 == IF includes(w4, "i") THEN replace(w4, {"i"}, toneMark("i", tone)) ELSE w4
  IN IF includes(w5, "u") THEN replace(w5, {"u"}, toneMark("u", tone)) ELSE w5

\* Lines 88-126: the vowel that takes the mark, by the order of the if-chain
\* (u: or v, then a, e, o, i, u), and the replacement of its first
\* occurrence; w is pinyinWithoutTone.
markVowel(w, tone) ==
  IF includes(w, "u:") \/ includes(w, "v")
  THEN replace(w, {"u:", "v"}, toneMark("u:", tone))
  ELSE IF includes(w, "a") THEN replace(w, {"a"}, toneMark("a", tone))
  ELSE IF includes(w, "e") THEN replace(w, {"e"}, toneMark("e", tone))
  ELSE IF includes(w, "o") THEN replace(w, {"o"}, toneMark("o", tone))
  ELSE IF includes(w, "i") THEN replace(w, {"i"}, toneMark("i", tone))
  ELSE IF includes(w, "u") THEN replace(w, {"u"}, toneMark("u", tone))
  ELSE w

\* The outcome of a call that throws instead of returning a string (reading
\* an index of null or undefined raises a TypeError).
TypeError == <<"TypeError">>

\* numberToTone without the null test of lines 75-77: toneMatch[1] is read
\* from null when the input has no trailing digit.
numberToToneNoNullCheck(s) ==
  IF toneMatch(s) = <<>> THEN TypeError
  ELSE LET tone == parseInt(toneMatch(s)[2])
       IN IF tone = 5 \/ tone = 0
          THEN toLowerCase(removeToneNumber(s))
          ELSE markVowel(toLowerCase(removeToneNumber(s)), tone)

\* numberToTone with the neutral test tone === 5 alone.
numberToToneFiveOnly(s) ==
  IF toneMatch(s) = <<>> THEN toLowerCase(s)
  ELSE LET tone == parseInt(toneMatch(s)[2])
       IN IF tone = 5
          THEN toLowerCase(removeToneNumber(s))
          ELSE markVowel(toLowerCase(removeToneNumber(s)), tone)

\* numberToTone whose no-digit return forgets toLowerCase.
numberToToneNoLower(s) ==
  IF toneMatch(s) = <<>> THEN s
  ELSE LET tone == parseInt(toneMatch(s)[2])
       IN IF tone = 5 \/ tone = 0
          THEN toLowerCase(removeToneNumber(s))
          ELSE markVowel(toLowerCase(removeToneNumber(s)), tone)

\* Convert pinyin with tone number to pinyin with tone marks.
numberToTone(s) ==
  IF toneMatch(s) = <<>> THEN toLowerCase(s)
  ELSE LET tone == parseInt(toneMatch(s)[2])
       IN IF tone = 5 \/ tone = 0
          THEN toLowerCase(removeToneNumber(s))
          ELSE LET pinyinWithoutTone == toLowerCase(removeToneNumber(s))
               IN markVowel(pinyinWithoutTone, tone)

\* Convert pinyin number notation to tone marks.
formatPinyin(s) == numberToTone(s)

----------------------------------------------------------------------------
(* src/unnamed/part_000 and src/src/components/PracticeSheet.tsx            *)

\* The class [a-zu:v] without the flag i: lower-case letters alone.
IsPinyinLetterCaseSensitive(c) ==
  c \in {"a", "d", "e", "f", "i", "m", "n", "o", "u", "v", "u:"}

\* The class [a-zu:v] under the flag i, over the characters of the model.
IsPinyinLetter(c) ==
  toLowerChar(c) \in {"a", "d", "e", "f", "i", "m", "n", "o", "u", "v", "u:"}

\* The number of consecutive characters of the class from position i on.
letterRun(text, i) ==
  LET R[k \in i..(Len(text) + 1)] ==
        IF k <= Len(text) /\ IsPinyinLetter(text[k]) THEN 1 + R[k + 1] ELSE 0
  IN R[i]

\* The match of /\[([a-zu:v]+)(\d+)\]/: one digit or more.
matchLengthDigits(text, i) ==
  IF text[i] # "[" THEN 0
  ELSE LET k == letterRun(text, i + 1)
           d == CHOOSE n \in 0..Len(text) :
                  /\ \A j \in 1..n : i + k + j <= Len(text)
                                       /\ IsDigit(text[i + k + j])
                  /\ ~(i + k + n + 1 <= Len(text)
                         /\ IsDigit(text[i + k + n + 1]))
       IN IF /\ k >= 1 /\ d >= 1
             /\ i + k + d + 1 <= Len(text)
             /\ text[i + k + d + 1] = "]"
          THEN k + d + 2 ELSE 0

\* The length of the match of /\[([a-zu:v]+)(\d)\]/ that starts at position
\* i, 0 if none does. The class holds no digit, so of the letter runs the
\* greedy + may try only the longest can be followed by the digit.
matchLength(text, i) ==
  IF text[i] # "[" THEN 0
  ELSE LET k == letterRun(text, i + 1)
       IN IF /\ k >= 1
             /\ i + k + 2 <= Len(text)
             /\ IsDigit(text[i + k + 1])
             /\ text[i + k + 2] = "]"
          THEN k + 3 ELSE 0

\* The callback returning formattedPinyin without the brackets.
formattedBare(letters, tone) == numberToTone(letters \o <<tone>>)

\* The callback returning `[${formattedPinyin}${tone}]`: the digit is kept.
formattedKeepsTone(letters, tone) ==
  <<"[">> \o numberToTone(letters \o <<tone>>) \o <<tone, "]">>

\* The replacement callback: (match, pinyin, tone) => `[${formattedPinyin}]`.
formatted(letters, tone) ==
  <<"[">> \o numberToTone(letters \o <<tone>>) \o <<"]">>

\* replace without the flag g: the first match alone is rewritten.
formatMeaningFirstOnly(text) ==
  LET F[i \in 1..(Len(text) + 1)] ==
        IF i > Len(text) THEN <<>>
        ELSE LET n == matchLength(text, i)
             IN IF n = 0 THEN <<text[i]>> \o F[i + 1]
                ELSE formatted(SubSeq(text, i + 1, i + n - 3), text[i + n - 2])
                       \o SubSeq(text, i + n, Len(text))
  IN F[1]

\* meaning.toLowerCase().replace(...): the whole text lower-cased first.
formatMeaningLowerCased(text) ==
  LET low == toLowerCase(text)
      F[i \in 1..(Len(low) + 1)] ==
        IF i > Len(low) THEN <<>>
        ELSE LET n == matchLength(low, i)
             IN IF n = 0 THEN <<low[i]>> \o F[i + 1]
                ELSE formatted(SubSeq(low, i + 1, i + n - 3), low[i + n - 2])
                       \o F[i + n]
  IN F[1]

\* Convert pinyin in meanings from number notation to tone marks: replace
\* with the flag g walks the text from the left and resumes after each match.
formatMeaningWithPinyin(text) ==
  LET F[i \in 1..(Len(text) + 1)] ==
        IF i > Len(text) THEN <<>>
        ELSE LET n == matchLength(text, i)
             IN IF n = 0 THEN <<text[i]>> \o F[i + 1]
                ELSE formatted(SubSeq(text, i + 1, i + n - 3), text[i + n - 2])
                       \o F[i + n]
  IN F[1]

----------------------------------------------------------------------------
(* The module's state and the call sites.                                  *)

\* The places that invoke the functions: loadCharacter calls formatPinyin,
\* the CharacterLookup and PracticeSheet components call
\* formatMeaningWithPinyin, whose callback calls numberToTone.
Sites == {"loadCharacter", "CharacterLookup", "PracticeSheet"}

\* A call site with no invocation under way. Besides the function entered
\* and its argument, a frame holds the locals of formatMeaningWithPinyin's
\* replace (pos, out) and those of the numberToTone activation it is in
\* (pinyin, tone, pinyinWithoutTone, and ret, the string it returns).
IdleFrame ==
  [fn |-> "none", arg |-> <<>>, pc |-> "idle", pos |-> 0, out |-> <<>>,
   pinyin |-> <<>>, tone |-> 0, pinyinWithoutTone |-> <<>>, ret |-> <<>>]

\* The module just loaded: the table built, the cache empty.
ModuleLoaded ==
  /\ toneMarks = ToneMarksObject
  /\ characterCache = <<>>

\* No call site has started anything.
NoCalls ==
  /\ calls = [site \in Sites |-> IdleFrame]
  /\ done = <<>>

\* null where a string may stand; the strings that may stand there (a
\* hanzi, a message, a radical) are never empty.
none == <<>>

\* No handler has run yet.
NoEvent ==
  [name |-> "none", arg |-> <<>>, data |-> <<>>, error |-> none,
   thrown |-> FALSE]

\* App and CharacterLookup as useState initialises them: the browser view,
\* the drawer closed, nothing selected, nothing searched.
AppStarted ==
  /\ currentView = "browser"
  /\ drawerOpen = FALSE
  /\ selectedCharacter = none
  /\ searchTerm = <<>>
  /\ characters = <<>>
  /\ loading = FALSE
  /\ error = none
  /\ notFoundChars = <<>>
  /\ searches = <<>>
  /\ clock = 0
  /\ event = NoEvent

----------------------------------------------------------------------------
(* The converter's state machine: a caller holds a string, calls the       *)
(* converter, and holds the returned string.                               *)

Init ==
  /\ pinyin \in Strings(MaxLen)
  /\ result = <<>>
  /\ pc = "call"
  /\ meaning = <<>>
  /\ label = <<>>
  /\ ModuleLoaded
  /\ NoCalls
  /\ AppStarted

\* One call of formatPinyin / numberToTone on the held string: it returns a
\* string, or control leaves it by an exception.
Convert ==
  /\ pc = "call"
  /\ LET r == formatPinyin(pinyin)
     IN IF r = TypeError
        THEN result' = result /\ pc' = "thrown"
        ELSE result' = r /\ pc' = "returned"
  /\ UNCHANGED <<pinyin, meaning, label, toneMarks, characterCache, calls, done>>
  /\ UNCHANGED ui

Next == Convert

Spec == Init /\ [][Next]_vars

----------------------------------------------------------------------------
(* The rewriter's state machine: a meaning of a character is rendered as   *)
(* the label of a chip.                                                    *)

\* The characters of a meaning.
TextChars == {"[", "]", "a", "A", "3", " "}

\* Whole annotations a meaning may hold.
Annotations == {<<"[", "a", "3", "]">>, <<"[", "m", "A", "5", "]">>}

\* An annotation up to its digit, for what follows to close or to spoil.
OpenAnnotations == {<<"[", "a", "3">>}

Parts == {<<c>> : c \in TextChars} \cup Annotations \cup OpenAnnotations

\* The concatenation of a sequence of parts.
Concat(parts) ==
  LET C[k \in 0..Len(parts)] ==
        IF k = 0 THEN <<>> ELSE C[k - 1] \o parts[k]
  IN C[Len(parts)]

Meanings(n) == {Concat(parts) : parts \in UNION {[1..k -> Parts] : k \in 0..n}}

InitRewrite ==
  /\ meaning \in Meanings(MaxParts)
  /\ label = <<>>
  /\ pc = "render"
  /\ pinyin = <<>>
  /\ result = <<>>
  /\ ModuleLoaded
  /\ NoCalls
  /\ AppStarted

\* label={formatMeaningWithPinyin(meaning)}
Render ==
  /\ pc = "render"
  /\ label' = formatMeaningWithPinyin(meaning)
  /\ pc' = "rendered"
  /\ UNCHANGED <<meaning, pinyin, result, toneMarks, characterCache, calls, done>>
  /\ UNCHANGED ui

NextRewrite == Render

SpecRewrite == InitRewrite /\ [][NextRewrite]_vars

----------------------------------------------------------------------------
(* The call sites at work on the one module: invocations advance a step at *)
(* a time, in any order, over the shared TONE_MARKS object and cache.      *)

\* The character files: the first two have a module, the third has none.
Hanzi == {"han1", "han2", "han3"}

\* hanziModules: the raw data of each character file present (hanzi,
\* pinyin, hsk_level and structure.radical of HanziRawData; a radical that
\* is null or empty is none).
hanziModules ==
  [h \in {"han1", "han2", "han4"} |->
     CASE h = "han1" ->
            [hanzi |-> "han1", pinyin |-> << <<"a", "3">>, <<"v", "A", "2">> >>,
             hsk_level |-> 2, radical |-> <<"b">>]
       [] h = "han2" ->
            [hanzi |-> "han2", pinyin |-> << <<"v", "A", "2">> >>,
             hsk_level |-> 1, radical |-> none]
       [] h = "han4" ->
            [hanzi |-> "han4", pinyin |-> <<>>,
             hsk_level |-> 1, radical |-> <<"a">>]]

\* The path of the detail file of a hanzi: "hanzi/" + hanzi + ".json".
DetailFile(h) == <<"hanzi/", h, ".json">>

\* indexData.characters: han3 is listed but its file is not there.
indexData ==
  << [hanzi |-> "han1", hsk_level |-> 2, detail_file |-> DetailFile("han1")],
     [hanzi |-> "han2", hsk_level |-> 1, detail_file |-> DetailFile("han2")],
     [hanzi |-> "han3", hsk_level |-> 1, detail_file |-> DetailFile("han3")],
     [hanzi |-> "han4", hsk_level |-> 1, detail_file |-> DetailFile("han4")] >>

\* The value null where a character record may stand.
null == [null |-> TRUE]

\* String.prototype.replace(piece, ''): the first occurrence of the piece
\* is taken out of the path.
removePiece(path, piece) ==
  IF \E k \in 1..Len(path) : path[k] = piece
  THEN LET k == CHOOSE j \in 1..Len(path) :
                  path[j] = piece /\ \A q \in 1..(j - 1) : path[q] # piece
       IN SubSeq(path, 1, k - 1) \o SubSeq(path, k + 1, Len(path))
  ELSE path

\* detailFile.replace('hanzi/', '').replace('.json', '')
hanziOf(detailFile) == removePiece(removePiece(detailFile, "hanzi/"), ".json")

\* hanziModules[`../output/data/${detailFile}`] is defined.
hasModule(detailFile) ==
  \E h \in DOMAIN hanziModules : detailFile = DetailFile(h)

\* The record built with pinyin the last raw entry converted.
buildCharacterLastPinyin(hanzi, data, now) ==
  [id |-> <<"hanzi-">> \o hanzi,
   hanzi |-> data.hanzi,
   pinyin |-> IF Len(data.pinyin) > 0
              THEN formatPinyin(data.pinyin[Len(data.pinyin)]) ELSE <<>>,
   pinyin_all |-> [k \in 1..Len(data.pinyin) |-> formatPinyin(data.pinyin[k])],
   hsk_level |-> data.hsk_level,
   radical |-> data.radical,
   created_at |-> now]

\* loadCharacter, lines 156-182: the HSKCharacter built from the raw data
\* (id, hanzi, pinyin, pinyin_all, hsk_level, radical, created_at).
buildCharacter(hanzi, data, now) ==
  [id |-> <<"hanzi-">> \o hanzi,
   hanzi |-> data.hanzi,
   pinyin |-> IF Len(data.pinyin) > 0 THEN formatPinyin(data.pinyin[1]) ELSE <<>>,
   pinyin_all |-> [k \in 1..Len(data.pinyin) |-> formatPinyin(data.pinyin[k])],
   hsk_level |-> data.hsk_level,
   radical |-> data.radical,
   created_at |-> now]

\* characterCache.set(hanzi, character)
cacheSet(cache, hanzi, character) ==
  [c \in DOMAIN cache \cup {hanzi} |->
     IF c = hanzi THEN character ELSE cache[c]]

\* loadCharacter without the cache check of lines 141-143.
loadCharacterAlwaysBuilds(detailFile, cache, now) ==
  LET hanzi == hanziOf(detailFile)
  IN IF ~hasModule(detailFile)
     THEN [character |-> null, cache |-> cache]
     ELSE LET character == buildCharacter(hanzi, hanziModules[hanzi[1]], now)
          IN [character |-> character,
              cache |-> cacheSet(cache, hanzi[1], character)]

\* Load a single character from its JSON file: what it returns and the
\* cache it leaves, from the cache it finds and the time it reads.
loadCharacter(detailFile, cache, now) ==
  LET hanzi == hanziOf(detailFile)
  IN IF Len(hanzi) = 1 /\ hanzi[1] \in DOMAIN cache
     THEN [character |-> cache[hanzi[1]], cache |-> cache]
     ELSE IF ~hasModule(detailFile)
     THEN [character |-> null, cache |-> cache]
     ELSE LET character == buildCharacter(hanzi, hanziModules[hanzi[1]], now)
          IN [character |-> character,
              cache |-> cacheSet(cache, hanzi[1], character)]

\* The meanings the components render.
MeaningsShown == {<<"[", "a", "3", "]">>, <<"A", "[", "v", "A", "2", "]">>}

\* The invocations started so far: those that returned to their call site
\* and those under way.
Started ==
  Cardinality({k \in 1..Len(done) : ~done[k].nested})
    + Cardinality({site \in Sites : calls[site].pc # "idle"})

InitCalls ==
  /\ ModuleLoaded
  /\ NoCalls
  /\ AppStarted
  /\ pinyin = <<>>
  /\ result = <<>>
  /\ pc = "idle"
  /\ meaning = <<>>
  /\ label = <<>>

solo == <<pinyin, result, pc, meaning, label, ui>>

\* A call site enters its function: loadCharacter(detailFile), or
\* formatMeaningWithPinyin(meaning).
Invoke(site) ==
  /\ calls[site].pc = "idle"
  /\ Started < MaxCalls
  /\ IF site = "loadCharacter"
     THEN \E h \in Hanzi :
            calls' = [calls EXCEPT ![site] =
                        [IdleFrame EXCEPT !.fn = "loadCharacter",
                                          !.arg = <<h>>, !.pc = "load"]]
     ELSE \E text \in MeaningsShown :
            calls' = [calls EXCEPT ![site] =
                        [IdleFrame EXCEPT !.fn = "formatMeaningWithPinyin",
                                          !.arg = text, !.pc = "scan",
                                          !.pos = 1]]
  /\ UNCHANGED <<solo, toneMarks, characterCache, done>>

\* loadCharacter, lines 136-159: the cached record if there is one, null if
\* the file has no module, else formatPinyin(data.pinyin[0]) is entered.
LC_Load(site) ==
  LET f == calls[site]
      h == f.arg[1]
  IN /\ f.pc = "load"
     /\ calls' = [calls EXCEPT ![site] =
          IF h \in DOMAIN characterCache
          THEN [f EXCEPT !.out = characterCache[h].pinyin, !.pc = "return"]
          ELSE IF h \notin DOMAIN hanziModules
          THEN [f EXCEPT !.out = <<>>, !.pc = "return"]
          ELSE IF Len(hanziModules[h].pinyin) > 0
          THEN [f EXCEPT !.pinyin = hanziModules[h].pinyin[1], !.pc = "match"]
          ELSE [f EXCEPT !.ret = <<>>, !.pc = "cache"]]
     /\ UNCHANGED <<solo, toneMarks, characterCache, done>>

\* loadCharacter, lines 161-187: the record is built and cached.
LC_Cache(site) ==
  LET f == calls[site]
      h == f.arg[1]
      character == [buildCharacter(f.arg, hanziModules[h], clock)
                      EXCEPT !.pinyin = f.ret]
  IN /\ f.pc = "cache"
     /\ characterCache' = cacheSet(characterCache, h, character)
     /\ calls' = [calls EXCEPT ![site] =
                   [f EXCEPT !.out = character.pinyin, !.pc = "return"]]
     /\ UNCHANGED <<solo, toneMarks, done>>

\* formatMeaningWithPinyin, line 216: replace looks for the next match from
\* pos on; a character before it is copied, a match enters the callback,
\* which calls numberToTone(pinyin + tone).
RW_Scan(site) ==
  LET f == calls[site]
  IN /\ f.pc = "scan"
     /\ calls' = [calls EXCEPT ![site] =
          IF f.pos > Len(f.arg) THEN [f EXCEPT !.pc = "return"]
          ELSE LET n == matchLength(f.arg, f.pos)
               IN IF n = 0
                  THEN [f EXCEPT !.out = f.out \o <<f.arg[f.pos]>>,
                                 !.pos = f.pos + 1]
                  ELSE [f EXCEPT !.pinyin = SubSeq(f.arg, f.pos + 1, f.pos + n - 2),
                                 !.pos = f.pos + n, !.pc = "match"]]
     /\ UNCHANGED <<solo, toneMarks, characterCache, done>>

\* numberToTone, lines 74-77.
NT_Match(site) ==
  LET f == calls[site]
  IN /\ f.pc = "match"
     /\ calls' = [calls EXCEPT ![site] =
          IF toneMatch(f.pinyin) = <<>>
          THEN [f EXCEPT !.ret = toLowerCase(f.pinyin), !.pc = "leave"]
          ELSE [f EXCEPT !.pc = "tone"]]
     /\ UNCHANGED <<solo, toneMarks, characterCache, done>>

\* Lines 79-83 with tone a variable of the module, one for all invocations.
NT_ToneShared(site) ==
  LET f == calls[site]
      tone == parseInt(toneMatch(f.pinyin)[2])
  IN /\ f.pc = "tone"
     /\ calls' = [c \in Sites |->
          IF c # site THEN [calls[c] EXCEPT !.tone = tone]
          ELSE IF tone = 5 \/ tone = 0
          THEN [f EXCEPT !.tone = tone,
                         !.ret = toLowerCase(removeToneNumber(f.pinyin)),
                         !.pc = "leave"]
          ELSE [f EXCEPT !.tone = tone, !.pc = "strip"]]
     /\ UNCHANGED <<solo, toneMarks, characterCache, done>>

\* numberToTone, lines 79-83.
NT_Tone(site) ==
  LET f == calls[site]
      tone == parseInt(toneMatch(f.pinyin)[2])
  IN /\ f.pc = "tone"
     /\ calls' = [calls EXCEPT ![site] =
          IF tone = 5 \/ tone = 0
          THEN [f EXCEPT !.tone = tone,
                         !.ret = toLowerCase(removeToneNumber(f.pinyin)),
                         !.pc = "leave"]
          ELSE [f EXCEPT !.tone = tone, !.pc = "strip"]]
     /\ UNCHANGED <<solo, toneMarks, characterCache, done>>

\* Line 86 with pinyinWithoutTone a variable of the module, one for all
\* invocations.
NT_StripShared(site) ==
  LET f == calls[site]
      w == toLowerCase(removeToneNumber(f.pinyin))
  IN /\ f.pc = "strip"
     /\ calls' = [c \in Sites |->
          IF c # site THEN [calls[c] EXCEPT !.pinyinWithoutTone = w]
          ELSE [f EXCEPT !.pinyinWithoutTone = w, !.pc = "mark"]]
     /\ UNCHANGED <<solo, toneMarks, characterCache, done>>

\* numberToTone, line 86.
NT_Strip(site) ==
  LET f == calls[site]
  IN /\ f.pc = "strip"
     /\ calls' = [calls EXCEPT ![site] =
          [f EXCEPT !.pinyinWithoutTone = toLowerCase(removeToneNumber(f.pinyin)),
                    !.pc = "mark"]]
     /\ UNCHANGED <<solo, toneMarks, characterCache, done>>

\* Lines 88-126 with line 91 storing the chosen mark as the row of u:.
NT_MarkAssignsRow(site) ==
  LET f == calls[site]
  IN /\ f.pc = "mark"
     /\ calls' = [calls EXCEPT ![site] =
          [f EXCEPT !.ret = markVowel(f.pinyinWithoutTone, f.tone),
                    !.pc = "leave"]]
     /\ toneMarks' =
          IF includes(f.pinyinWithoutTone, "u:") \/ includes(f.pinyinWithoutTone, "v")
          THEN [toneMarks EXCEPT !["u:"] = toneMark("u:", f.tone)]
          ELSE toneMarks
     /\ UNCHANGED <<solo, characterCache, done>>

\* numberToTone, lines 88-126: the table is read, never written.
NT_Mark(site) ==
  LET f == calls[site]
  IN /\ f.pc = "mark"
     /\ calls' = [calls EXCEPT ![site] =
          [f EXCEPT !.ret = markVowel(f.pinyinWithoutTone, f.tone),
                    !.pc = "leave"]]
     /\ UNCHANGED <<solo, toneMarks, characterCache, done>>

\* numberToTone returns to its caller: loadCharacter goes on to build the
\* record, the replace callback returns `[${formattedPinyin}]` and the scan
\* resumes after the match.
NT_Leave(site) ==
  LET f == calls[site]
  IN /\ f.pc = "leave"
     /\ done' = Append(done, [fn |-> "numberToTone", arg |-> f.pinyin,
                              out |-> f.ret, nested |-> TRUE])
     /\ calls' = [calls EXCEPT ![site] =
          IF f.fn = "loadCharacter" THEN [f EXCEPT !.pc = "cache"]
          ELSE [f EXCEPT !.out = f.out \o <<"[">> \o f.ret \o <<"]">>,
                         !.pc = "scan"]]
     /\ UNCHANGED <<solo, toneMarks, characterCache>>

\* The function entered at the call site returns.
Return(site) ==
  LET f == calls[site]
  IN /\ f.pc = "return"
     /\ done' = Append(done, [fn |-> f.fn, arg |-> f.arg, out |-> f.out,
                              nested |-> FALSE])
     /\ calls' = [calls EXCEPT ![site] = IdleFrame]
     /\ UNCHANGED <<solo, toneMarks, characterCache>>

NextCalls ==
  \E site \in Sites :
    \/ Invoke(site)
    \/ LC_Load(site)
    \/ LC_Cache(site)
    \/ RW_Scan(site)
    \/ NT_Match(site)
    \/ NT_Tone(site)
    \/ NT_Strip(site)
    \/ NT_Mark(site)
    \/ NT_Leave(site)
    \/ Return(site)

SpecCalls == InitCalls /\ [][NextCalls]_vars

----------------------------------------------------------------------------
(* src/src/lib/supabase.ts: the loaders over the index and the query shim. *)

\* The UTF-16 code unit of a character, for the comparison of strings by <
\* and >; han1..han5 stand for five consecutive CJK ideographs.
charCode(c) ==
  CASE c = " " -> 32 [] c = "3" -> 51 [] c = "A" -> 65
    [] c = "a" -> 97 [] c = "b" -> 98 [] c = "e" -> 101 [] c = "i" -> 105
    [] c = "m" -> 109 [] c = "o" -> 111 [] c = "u" -> 117 [] c = "v" -> 118
    [] c = "a_grave" -> 224 [] c = "a_acute" -> 225 [] c = "u:" -> 252
    [] c = "a_macron" -> 257 [] c = "a_caron" -> 462
    [] c = "u:_macron" -> 470 [] c = "u:_acute" -> 472
    [] c = "u:_caron" -> 474 [] c = "u:_grave" -> 476
    [] c = "han1" -> 19968 [] c = "han2" -> 19969 [] c = "han3" -> 19970
    [] c = "han4" -> 19971 [] c = "han5" -> 19972

\* x < y for two strings: the first code unit that differs decides, a
\* proper prefix is less.
stringLess(x, y) ==
  \E k \in 1..Len(y) :
    /\ \A j \in 1..(k - 1) : j <= Len(x) /\ x[j] = y[j]
    /\ k > Len(x) \/ charCode(x[k]) < charCode(y[k])

\* a[column] < b[column] as JavaScript evaluates it: numbers by value,
\* strings by code units, and false whenever one side is null (null is
\* read as 0 and the string as NaN).
lessThan(column, a, b) ==
  CASE column = "hsk_level" -> a.hsk_level < b.hsk_level
    [] column = "hanzi" -> charCode(a.hanzi) < charCode(b.hanzi)
    [] column = "radical" ->
         IF a.radical = none \/ b.radical = none THEN FALSE
         ELSE stringLess(a.radical, b.radical)
    [] OTHER -> stringLess(a[column], b[column])

\* options?.ascending ?? true; options is <<>> when none is passed.
ascendingOf(options) == IF options = <<>> THEN TRUE ELSE options[1]

\* The comparator that takes no notice of ascending: false.
compareAscendingAlways(column, ascending, a, b) ==
  IF lessThan(column, a, b) THEN -1
  ELSE IF lessThan(column, b, a) THEN 1 ELSE 0

\* The comparator handed to sort.
compare(column, ascending, a, b) ==
  IF ascending
  THEN IF lessThan(column, a, b) THEN -1
       ELSE IF lessThan(column, b, a) THEN 1 ELSE 0
  ELSE IF lessThan(column, b, a) THEN -1
       ELSE IF lessThan(column, a, b) THEN 1 ELSE 0

\* The permutations of 1..n.
Reorderings(n) ==
  {p \in [1..n -> 1..n] : \A i \in 1..n : \A j \in 1..n : p[i] = p[j] => i = j}

\* [...filtered].sort(comparator): the results the language allows. With a
\* consistent comparator (equivalence under 0 and the order under < are
\* transitive and agree) it is the one stable sorted order; with any other
\* comparator the order is implementation-defined.
sortResults(list, column, ascending) ==
  LET n == Len(list)
      table == [i \in 1..n |->
                  [j \in 1..n |-> compare(column, ascending, list[i], list[j])]]
      c(i, j) == table[i][j]
      consistent ==
        \A i \in 1..n : \A j \in 1..n : \A k \in 1..n :
          /\ c(i, i) = 0
          /\ (c(i, j) = 0 /\ c(j, k) = 0) => c(i, k) = 0
          /\ (c(i, j) < 0 /\ c(j, k) < 0) => c(i, k) < 0
          /\ (c(i, j) = 0) => (c(i, k) < 0 <=> c(j, k) < 0)
          /\ (c(i, j) < 0) <=> (c(j, i) > 0)
      stable(p) ==
        \A i \in 1..n : \A j \in (i + 1)..n :
          \/ c(p[i], p[j]) < 0
          \/ c(p[i], p[j]) = 0 /\ p[i] < p[j]
  IN {[k \in 1..n |-> list[p[k]]] :
        p \in {q \in Reorderings(n) : ~consistent \/ stable(q)}}

\* The loop of loadCharactersByLevel and loadAllCharacters: the entries
\* are loaded in order, the characters that load are collected.
loadEntries(entries, cache, now) ==
  LET F[k \in 0..Len(entries)] ==
        IF k = 0 THEN [characters |-> <<>>, cache |-> cache]
        ELSE LET before == F[k - 1]
                 r == loadCharacter(entries[k].detail_file, before.cache, now)
             IN [characters |-> IF r.character = null
                                THEN before.characters
                                ELSE Append(before.characters, r.character),
                 cache |-> r.cache]
  IN F[Len(entries)]

\* Load all characters for a specific HSK level.
loadCharactersByLevel(level, cache, now) ==
  loadEntries(SelectSeq(indexData, LAMBDA entry : entry.hsk_level = level),
              cache, now)

\* Load all characters.
loadAllCharacters(cache, now) == loadEntries(indexData, cache, now)

\* String.prototype.trim over the blank of the model.
trim(s) ==
  LET inner == {k \in 1..Len(s) : s[k] # " "}
  IN IF inner = {} THEN <<>>
     ELSE SubSeq(s, CHOOSE k \in inner : \A j \in inner : k <= j,
                    CHOOSE k \in inner : \A j \in inner : k >= j)

\* eq(column, value): the list filtered and the cache left.
eq(column, value, cache, now) ==
  IF column = "hsk_level" THEN loadCharactersByLevel(value, cache, now)
  ELSE IF column = "hanzi"
  THEN LET searchValue == trim(value)
           found == SelectSeq(indexData, LAMBDA entry : <<entry.hanzi>> = searchValue)
       IN IF found # <<>>
          THEN LET r == loadCharacter(found[1].detail_file, cache, now)
               IN [characters |-> IF r.character = null THEN <<>>
                                  ELSE <<r.character>>,
                   cache |-> r.cache]
          ELSE [characters |-> <<>>, cache |-> cache]
  ELSE LET all == loadAllCharacters(cache, now)
       IN [characters |-> SelectSeq(all.characters,
                                    LAMBDA char : char[column] = value),
           cache |-> all.cache]

\* A query: supabase.from(table).select('*'), then eq(column, value) or
\* not, then maybeSingle() or order(orderColumn, options).
Query(table, filter, column, value, last, orderColumn, options) ==
  [table |-> table, filter |-> filter, column |-> column, value |-> value,
   last |-> last, orderColumn |-> orderColumn, options |-> options]

\* maybeSingle(): the first of the filtered list or null, and no error.
maybeSingle(filtered) ==
  [thrown |-> FALSE,
   data |-> IF filtered.characters = <<>> THEN null ELSE filtered.characters[1],
   error |-> none, cache |-> filtered.cache]

\* The outcomes of a query run to its end: from throws, or the promise
\* resolves with data and error, and the cache is left as the loaders
\* left it.
supabase(q, cache, now) ==
  IF q.table # "hsk_characters"
  THEN {[thrown |-> TRUE, data |-> <<>>, error |-> none, cache |-> cache]}
  ELSE LET filtered == IF q.filter = "eq"
                       THEN eq(q.column, q.value, cache, now)
                       ELSE loadAllCharacters(cache, now)
       IN IF q.last = "maybeSingle"
          THEN {maybeSingle(filtered)}
          ELSE {[thrown |-> FALSE, data |-> sorted, error |-> none,
                 cache |-> filtered.cache] :
                  sorted \in sortResults(filtered.characters, q.orderColumn,
                                         ascendingOf(q.options))}

----------------------------------------------------------------------------
(* The shim at work: queries run one after another, each to its end, over  *)
(* the cache, while time passes.                                           *)

\* The columns a query orders by, and the options it passes.
OrderColumns == {"pinyin", "hsk_level", "radical"}

OrderOptions == {<<>>, <<TRUE>>, <<FALSE>>}

\* The queries made of the shim.
Queries ==
  {Query("users", "none", "", <<>>, "order", "pinyin", <<>>)}
    \cup {Query("hsk_characters", "eq", "hanzi", v, "maybeSingle", "", <<>>) :
            v \in {<<"han1">>, <<" ", "han2", " ">>, <<"han3">>, <<"han4">>,
                   <<"han5">>}}
    \cup {Query("hsk_characters", "eq", "hsk_level", level, "maybeSingle", "", <<>>) :
            level \in {1, 3}}
    \cup {Query("hsk_characters", "eq", "hsk_level", level, "order", column, options) :
            level \in {1, 2}, column \in OrderColumns, options \in OrderOptions}
    \cup {Query("hsk_characters", "eq", "radical", <<"b">>, "order", "pinyin", <<>>)}
    \cup {Query("hsk_characters", "none", "", <<>>, "order", column, options) :
            column \in OrderColumns, options \in OrderOptions}

InitShim ==
  /\ ModuleLoaded
  /\ NoCalls
  /\ AppStarted
  /\ pinyin = <<>>
  /\ result = <<>>
  /\ pc = "idle"
  /\ meaning = <<>>
  /\ label = <<>>

\* The state the shim neither reads nor writes.
beside ==
  <<pinyin, result, pc, meaning, label, toneMarks, calls, done, currentView,
    drawerOpen, selectedCharacter, searchTerm, characters, loading, error,
    notFoundChars, searches>>

\* A query is made and runs to its end.
RunQuery ==
  /\ \E q \in Queries : \E r \in supabase(q, characterCache, clock) :
       /\ characterCache' = r.cache
       /\ event' = [name |-> "query", arg |-> q, data |-> r.data,
                    error |-> r.error, thrown |-> r.thrown]
  /\ UNCHANGED <<beside, clock>>

\* Time passes.
Tick ==
  /\ clock < MaxClock
  /\ clock' = clock + 1
  /\ event' = [NoEvent EXCEPT !.name = "tick"]
  /\ UNCHANGED <<beside, characterCache>>

NextShim == RunQuery \/ Tick

SpecShim == InitShim /\ [][NextShim]_vars

----------------------------------------------------------------------------
(* src/src/App.tsx and src/unnamed/part_000 (CharacterLookup): the views,  *)
(* the drawer, the selected character and the search.                      *)

Views == {"browser", "practice", "lookup"}

\* The class [\u4e00-\u9fff].
IsCJK(c) == c \in {"han1", "han2", "han3", "han4", "han5"}

\* What is typed into the search field.
SearchTerms ==
  {<<" ">>, <<"x">>, <<" ", "han1", "x", "han3">>, <<"han5", "han2", "han2">>}

\* The query handleSearch makes for one character, run to its end:
\* supabase.from('hsk_characters').select('*').eq('hanzi', char).maybeSingle().
hanziQuery(char, cache, now) ==
  maybeSingle(eq("hanzi", <<char>>, cache, now))

\* A handleSearch invocation waiting at its await: the value searched, the
\* characters matched in it, the index of the one asked for, the promise
\* awaited and the two lists so far.
Search(value, inputChars, k, awaited, foundChars, missingChars) ==
  [value |-> value, inputChars |-> inputChars, k |-> k, awaited |-> awaited,
   foundChars |-> foundChars, missingChars |-> missingChars]

\* Lines 68-80 with the else of line 78 dropped: the character is pushed
\* to missingChars whether data is there or not.
settleNoElse(f) ==
  LET char == f.inputChars[f.k]
  IN IF f.awaited.error # none
     THEN [f EXCEPT !.missingChars = Append(f.missingChars, char)]
     ELSE IF f.awaited.data # null
     THEN [f EXCEPT !.foundChars = Append(f.foundChars, f.awaited.data),
                    !.missingChars = Append(f.missingChars, char)]
     ELSE [f EXCEPT !.missingChars = Append(f.missingChars, char)]

\* Lines 68-80: the awaited result goes to foundChars or the character to
\* missingChars.
settle(f) ==
  LET char == f.inputChars[f.k]
  IN IF f.awaited.error # none
     THEN [f EXCEPT !.missingChars = Append(f.missingChars, char)]
     ELSE IF f.awaited.data # null
     THEN [f EXCEPT !.foundChars = Append(f.foundChars, f.awaited.data)]
     ELSE [f EXCEPT !.missingChars = Append(f.missingChars, char)]

\* The message of lines 90-96.
errorOf(foundChars, missingChars) ==
  IF Len(foundChars) = 0 /\ Len(missingChars) > 0
  THEN <<"No characters found. Missing: ", missingChars>>
  ELSE IF Len(missingChars) > 0
  THEN <<"Some characters not found: ", missingChars>>
  ELSE none

\* The state of CharacterLookup.
lookup == <<searchTerm, characters, loading, error, notFoundChars, searches>>

\* handleSearch(value) from its entry to its first await or its return,
\* with the searches waiting beside it: lines 36-66. e is the event of the
\* handler that called it, kept when the search waits.
HandleSearch(value, waiting, e) ==
  LET inputChars == SelectSeq(value, IsCJK)
  IN IF value = <<>>
     THEN /\ UNCHANGED <<characters, loading, error, notFoundChars>>
          /\ searches' = waiting
          /\ characterCache' = characterCache
          /\ event' = e
     ELSE IF inputChars = <<>>
     THEN /\ loading' = FALSE
          /\ error' = <<"Please enter at least one Chinese character">>
          /\ characters' = <<>>
          /\ notFoundChars' = <<>>
          /\ searches' = waiting
          /\ characterCache' = characterCache
          /\ event' = [NoEvent EXCEPT !.name = "handleSearch", !.arg = value]
     ELSE \E r \in {hanziQuery(inputChars[1], characterCache, clock)} :
             /\ loading' = TRUE
             /\ error' = none
             /\ characters' = <<>>
             /\ notFoundChars' = <<>>
             /\ searches' = Append(waiting,
                   Search(value, inputChars, 1,
                          [data |-> r.data, error |-> r.error], <<>>, <<>>))
             /\ characterCache' = r.cache
             /\ event' = e

\* CharacterLookup is mounted with initialCharacter: useState and the
\* effect of lines 107-123.
Mount(initialCharacter, e) ==
  IF initialCharacter # none
  THEN /\ searchTerm' = initialCharacter
       /\ HandleSearch(initialCharacter, <<>>, e)
  ELSE /\ searchTerm' = <<>>
       /\ characters' = <<>>
       /\ loading' = FALSE
       /\ error' = none
       /\ notFoundChars' = <<>>
       /\ searches' = <<>>
       /\ characterCache' = characterCache
       /\ event' = e

\* CharacterLookup leaves the screen: its state is gone, and what its
\* searches still set is set on nothing.
Unmount(e) ==
  /\ searchTerm' = <<>>
  /\ characters' = <<>>
  /\ loading' = FALSE
  /\ error' = none
  /\ notFoundChars' = <<>>
  /\ searches' = <<>>
  /\ characterCache' = characterCache
  /\ event' = e

\* The view changes from one to the other: CharacterLookup is mounted,
\* unmounted or left as it is.
Show(from, to, initialCharacter, e) ==
  IF from # "lookup" /\ to = "lookup"
  THEN Mount(initialCharacter, e)
  ELSE IF from = "lookup" /\ to # "lookup"
  THEN Unmount(e)
  ELSE /\ UNCHANGED <<lookup, characterCache>>
       /\ event' = e

\* The state App and CharacterLookup neither read nor write.
engine == <<pinyin, result, pc, meaning, label, toneMarks, calls, done, clock>>

InitApp ==
  /\ ModuleLoaded
  /\ NoCalls
  /\ AppStarted
  /\ pinyin = <<>>
  /\ result = <<>>
  /\ pc = "idle"
  /\ meaning = <<>>
  /\ label = <<>>

\* handleNavigation without the clearing of lines 53-55.
handleNavigationKeeps(view) ==
  /\ currentView' = view
  /\ drawerOpen' = FALSE
  /\ selectedCharacter' = selectedCharacter
  /\ Show(currentView, view, selectedCharacter',
          [NoEvent EXCEPT !.name = "handleNavigation", !.arg = view,
                          !.data = selectedCharacter])
  /\ UNCHANGED engine

\* A menu item is clicked: the view is shown, the drawer closed, and the
\* selected character cleared unless the view is the lookup. The event
\* keeps the character selected before.
handleNavigation(view) ==
  /\ currentView' = view
  /\ drawerOpen' = FALSE
  /\ selectedCharacter' = IF view # "lookup" THEN none ELSE selectedCharacter
  /\ Show(currentView, view, selectedCharacter',
          [NoEvent EXCEPT !.name = "handleNavigation", !.arg = view,
                          !.data = selectedCharacter])
  /\ UNCHANGED engine

\* HSKBrowser loads the characters of a level to show them.
fetchCharacters(level) ==
  /\ currentView = "browser"
  /\ characterCache' = loadCharactersByLevel(level, characterCache, clock).cache
  /\ characterCache' # characterCache
  /\ event' = [NoEvent EXCEPT !.name = "fetchCharacters", !.arg = level]
  /\ UNCHANGED <<engine, currentView, drawerOpen, selectedCharacter, lookup>>

\* A character shown by HSKBrowser is clicked: it is selected and the
\* lookup is shown, which searches for it as it mounts.
handleCharacterClick(character) ==
  /\ currentView = "browser"
  /\ selectedCharacter' = <<character.hanzi>>
  /\ currentView' = "lookup"
  /\ drawerOpen' = FALSE
  /\ Show(currentView, "lookup", selectedCharacter',
          [NoEvent EXCEPT !.name = "handleCharacterClick",
                          !.arg = character.hanzi])
  /\ UNCHANGED engine

\* The menu button: setDrawerOpen(!drawerOpen).
toggleDrawer ==
  /\ drawerOpen' = ~drawerOpen
  /\ event' = [NoEvent EXCEPT !.name = "toggleDrawer"]
  /\ UNCHANGED <<engine, currentView, selectedCharacter, lookup, characterCache>>

\* The search field changes: setSearchTerm(e.target.value).
onChange(value) ==
  /\ currentView = "lookup"
  /\ searchTerm' = value
  /\ searchTerm' # searchTerm
  /\ event' = [NoEvent EXCEPT !.name = "onChange", !.arg = value]
  /\ UNCHANGED <<engine, currentView, drawerOpen, selectedCharacter,
                 characters, loading, error, notFoundChars, searches,
                 characterCache>>

\* The Search button or the Enter key: the trimmed term, if any, is
\* searched.
handleSearchClick ==
  /\ currentView = "lookup"
  /\ Len(searches) < MaxSearches
  /\ trim(searchTerm) # <<>>
  /\ HandleSearch(trim(searchTerm), searches,
                  [NoEvent EXCEPT !.name = "await", !.arg = trim(searchTerm)])
  /\ UNCHANGED <<engine, currentView, drawerOpen, selectedCharacter, searchTerm>>

\* The promise a search awaits resolves: lines 68-101. The result is put
\* on its list; then the next character is asked for, or the lists are
\* shown and the search ends.
resume(i) ==
  /\ \E f \in {settle(searches[i])} :
       IF f.k < Len(f.inputChars)
       THEN \E r \in {hanziQuery(f.inputChars[f.k + 1], characterCache, clock)} :
              /\ searches' = [searches EXCEPT ![i] =
                    [f EXCEPT !.k = f.k + 1,
                              !.awaited = [data |-> r.data, error |-> r.error]]]
              /\ characterCache' = r.cache
              /\ event' = [NoEvent EXCEPT !.name = "await", !.arg = f.value]
              /\ UNCHANGED <<characters, loading, error, notFoundChars>>
       ELSE /\ characters' = f.foundChars
            /\ notFoundChars' = f.missingChars
            /\ error' = errorOf(f.foundChars, f.missingChars)
            /\ loading' = FALSE
            /\ searches' = SubSeq(searches, 1, i - 1)
                             \o SubSeq(searches, i + 1, Len(searches))
            /\ characterCache' = characterCache
            /\ event' = [NoEvent EXCEPT !.name = "handleSearch", !.arg = f.value]
  /\ UNCHANGED <<engine, currentView, drawerOpen, selectedCharacter, searchTerm>>

NextApp ==
  \/ \E view \in Views : handleNavigation(view)
  \/ \E level \in {1, 2} : fetchCharacters(level)
  \/ \E h \in DOMAIN characterCache : handleCharacterClick(characterCache[h])
  \/ toggleDrawer
  \/ \E value \in SearchTerms : onChange(value)
  \/ handleSearchClick
  \/ \E i \in 1..Len(searches) : resume(i)

SpecApp == InitApp /\ [][NextApp]_vars

----------------------------------------------------------------------------
(* Vocabulary of the properties.                                           *)

Returned == pc = "returned"

\* The input ends in a decimal digit.
EndsInDigit(s) == Len(s) > 0 /\ s[Len(s)] \in Digits

\* The number the trailing digit denotes.
ToneOf(s) ==
  CHOOSE n \in 0..9 :
    s[Len(s)] = <<"0", "1", "2", "3", "4", "5", "6", "7", "8", "9">>[n + 1]

\* The input without its last character.
Stem(s) == SubSeq(s, 1, Len(s) - 1)

\* The input has a trailing digit that is one of the four tones.
FourTone(s) == EndsInDigit(s) /\ ToneOf(s) \in 1..4

\* The priority order of the vowels, highest first.
PriorityList == <<{"u:", "v"}, {"a"}, {"e"}, {"o"}, {"i"}, {"u"}>>

Present(w, class) == \E k \in 1..Len(w) : w[k] \in class

\* The rank in PriorityList of the vowel that takes the mark, 0 if w holds
\* no vowel.
ChosenRank(w) ==
  IF \E r \in 1..Len(PriorityList) : Present(w, PriorityList[r])
  THEN CHOOSE r \in 1..Len(PriorityList) :
         /\ Present(w, PriorityList[r])
         /\ \A q \in 1..(r - 1) : ~Present(w, PriorityList[q])
  ELSE 0

\* The leftmost position of w holding a character of class.
FirstOf(w, class) ==
  CHOOSE p \in 1..Len(w) :
    w[p] \in class /\ \A j \in 1..(p - 1) : w[j] \notin class

\* The marked characters by diacritic: flat, rising, dipping, falling.
Flat == {"a_macron", "e_macron", "i_macron", "o_macron", "u_macron", "u:_macron"}
Rising == {"a_acute", "e_acute", "i_acute", "o_acute", "u_acute", "u:_acute"}
Dipping == {"a_caron", "e_caron", "i_caron", "o_caron", "u_caron", "u:_caron"}
Falling == {"a_grave", "e_grave", "i_grave", "o_grave", "u_grave", "u:_grave"}

Contour == <<Flat, Rising, Dipping, Falling>>

MarkedChars == Flat \cup Rising \cup Dipping \cup Falling

\* The marked characters by the letter under the diacritic; v stands for u:.
VariantsOf(v) ==
  CASE v = "a" -> {"a_macron", "a_acute", "a_caron", "a_grave"}
    [] v = "e" -> {"e_macron", "e_acute", "e_caron", "e_grave"}
    [] v = "i" -> {"i_macron", "i_acute", "i_caron", "i_grave"}
    [] v = "o" -> {"o_macron", "o_acute", "o_caron", "o_grave"}
    [] v = "u" -> {"u_macron", "u_acute", "u_caron", "u_grave"}
    [] v \in {"u:", "v"} -> {"u:_macron", "u:_acute", "u:_caron", "u:_grave"}

\* The letter v carrying the diacritic of tone t.
Expected(v, t) == CHOOSE c \in VariantsOf(v) \cap Contour[t] : TRUE

----------------------------------------------------------------------------
C2_IuMarksU ==
  (Returned /\ FourTone(pinyin)) =>
    LET w == toLowerCase(Stem(pinyin))
        t == ToneOf(pinyin)
    IN \A p \in 1..(Len(w) - 1) :
         ( /\ w[p] = "i" /\ w[p + 1] = "u"
           /\ ~Present(w, {"u:", "v", "a", "e", "o"}) ) =>
           /\ Present(result, VariantsOf("u"))
           /\ ~Present(result, VariantsOf("i"))

(* C3: under tone t in 1..4 the marked vowel carries the t-th diacritic in *)
(* the order flat, rising, dipping, falling, for each of a, e, i, o, u and *)
(* u:; "ma1".."ma4" give m + a-macron, a-acute, a-caron, a-grave.          *)
C3_ToneVariant ==
  (Returned /\ FourTone(pinyin)) =>
    LET w == toLowerCase(Stem(pinyin))
        t == ToneOf(pinyin)
        r == ChosenRank(w)
    IN /\ r # 0 =>
            \E p \in 1..Len(w) :
              /\ w[p] \in PriorityList[r]
              /\ Len(result) = Len(w)
              /\ result[p] = Expected(w[p], t)
       /\ \A v \in {"a", "e", "i", "o", "u", "u:"} :
            w = <<"m", v>> =>
              result = <<"m", Expected(v, t)>>
       /\ w = <<"m", "a">> =>
            result = << <<"m", "a_macron">>, <<"m", "a_acute">>,
                        <<"m", "a_caron">>, <<"m", "a_grave">> >>[t]

C3_Witness ==
  /\ Returned
  /\ pinyin = <<"m", "u", "2">>
  /\ result = <<"m", "u_acute">>

(* C4: every malformed or unexpected input (no trailing digit, no vowel, a *)
(* trailing digit 6..9) yields the lower-cased input unchanged or the      *)
(* digit-stripped, lower-cased input with nothing marked or inserted.      *)
C4_SilentFallback ==
  ( /\ Returned
    /\ \/ ~EndsInDigit(pinyin)
       \/ ToneOf(pinyin) \in 6..9
       \/ ChosenRank(toLowerCase(Stem(pinyin))) = 0 ) =>
    \/ result = toLowerCase(pinyin)
    \/ result = toLowerCase(Stem(pinyin))

(* C5: a trailing digit 5 or 0 is removed and the rest lower-cased, with   *)
(* no diacritic added; 0 and 5 give the same result for the same letters.  *)
C5_NeutralTone ==
  (Returned /\ EndsInDigit(pinyin) /\ ToneOf(pinyin) \in {0, 5}) =>
    /\ result = toLowerCase(Stem(pinyin))
    /\ Len(result) = Len(pinyin) - 1
    /\ ~Present(result, MarkedChars)
    /\ numberToTone(Stem(pinyin) \o <<"0">>) = result
    /\ numberToTone(Stem(pinyin) \o <<"5">>) = result

C5_Witness ==
  /\ Returned
  /\ pinyin = <<"m", "a", "0">>
  /\ result = <<"m", "a">>

(* C6: an input whose last character is not a decimal digit (the empty     *)
(* string too) comes back lower-cased, of the same length, with no         *)
(* character added, removed or marked.                                     *)
C6_NoDigit ==
  (Returned /\ ~EndsInDigit(pinyin)) =>
    /\ Len(result) = Len(pinyin)
    /\ \A k \in 1..Len(pinyin) : result[k] = toLowerChar(pinyin[k])
    /\ ~Present(result, MarkedChars)

C6_Witness ==
  /\ Returned
  /\ pinyin = <<"3", "m", "A">>
  /\ result = <<"3", "m", "a">>

\* The positions of s holding the letter c in either case.
PositionsOf(s, c) == {k \in 1..Len(s) : toLowerChar(s[k]) = c}

Rewrite(s, from, to) == [k \in 1..Len(s) |-> IF s[k] = from THEN to ELSE s[k]]

\* The syllable holds a v and no u: in either case.
VNoUmlaut(s) == PositionsOf(s, "v") # {} /\ PositionsOf(s, "u:") = {}

(* C8: a syllable containing v and no u: gives, for every trailing digit   *)
(* 0..5 and with no digit, the result of the same syllable with each v     *)
(* replaced by u:.                                                         *)
C8_VAsUmlautEveryPath ==
  ( /\ Returned /\ VNoUmlaut(pinyin)
    /\ ~EndsInDigit(pinyin) \/ ToneOf(pinyin) \in 0..5 ) =>
    result = numberToTone(Rewrite(pinyin, "v", "u:"))

(* C8 amended: v stands for u: only where the mark is placed. Under a      *)
(* trailing digit 1..4 the result is that of the syllable with its first v *)
(* written u: (that v becomes the marked u:, later v's stay v); under 0, 5 *)
(* or no digit every v stays the letter v, so the result is that of the    *)
(* u: spelling with each u: written back as v, and differs from it.        *)
C8_VAsUmlautWhenMarked ==
  (Returned /\ VNoUmlaut(pinyin)) =>
    LET p == FirstOf(pinyin, {"v"})
        asUmlaut == numberToTone(Rewrite(pinyin, "v", "u:"))
    IN /\ FourTone(pinyin) =>
            /\ result = numberToTone([pinyin EXCEPT ![p] = "u:"])
            /\ result[p] = Expected("u:", ToneOf(pinyin))
       /\ (~EndsInDigit(pinyin) \/ ToneOf(pinyin) \in {0, 5}) =>
            /\ result = Rewrite(asUmlaut, "u:", "v")
            /\ result # asUmlaut

C8_Witness ==
  /\ Returned
  /\ pinyin = <<"v", "v", "3">>
  /\ result = <<"u:_caron", "v">>

(* C9: only the first occurrence of the chosen vowel is replaced: what     *)
(* precedes it and what follows it, later occurrences of the same letter   *)
(* included, is the digit-stripped lower-cased syllable as it was; for     *)
(* u:/v the leftmost occurrence of either is the one replaced.             *)
C9_FirstOccurrenceOnly ==
  ( /\ Returned /\ EndsInDigit(pinyin) /\ ToneOf(pinyin) \notin {0, 5}
    /\ ChosenRank(toLowerCase(Stem(pinyin))) # 0 ) =>
    LET w == toLowerCase(Stem(pinyin))
        p == FirstOf(w, PriorityList[ChosenRank(w)])
        n == Len(w) - p
    IN /\ Len(result) >= Len(w)
       /\ SubSeq(result, 1, p - 1) = SubSeq(w, 1, p - 1)
       /\ SubSeq(result, Len(result) - n + 1, Len(result))
            = SubSeq(w, p + 1, Len(w))
       /\ FourTone(pinyin) =>
            /\ Len(result) = Len(w)
            /\ result[p] \in VariantsOf(w[p])

C9_Witness ==
  /\ Returned
  /\ pinyin = <<"v", "u:", "4">>
  /\ result = <<"u:_grave", "u:">>

(* C10: the result for an input equals the result for the lower-cased      *)
(* input, on every path, and the result holds no upper-case letter.        *)
C10_CaseNormalised ==
  Returned =>
    /\ result = numberToTone(toLowerCase(pinyin))
    /\ ~Present(result, UpperLetters)

C10_Witness ==
  /\ Returned
  /\ pinyin = <<"m", "A", "3">>
  /\ result = <<"m", "a_caron">>

(* C11: with a trailing tone digit 1..4 and none of u:, v, a, e, o, i, u   *)
(* in the syllable, the result is the digit-stripped, lower-cased string   *)
(* unchanged, and the call returns.                                        *)
C11_NoVowelFallback ==
  (pc # "call" /\ FourTone(pinyin)
     /\ ~Present(toLowerCase(Stem(pinyin)), UNION {PriorityList[r] : r \in 1..6})) =>
    /\ Returned
    /\ result = toLowerCase(Stem(pinyin))

C11_Witness ==
  /\ Returned
  /\ pinyin = <<"m", "m", "2">>
  /\ result = <<"m", "m">>

\* Every character a returned string can hold.
Characters == Alphabet \cup MarkedChars \cup {"n", "d", "f"}

(* C12: the call is total: from every input (empty, no digit, several      *)
(* trailing digits, any digit 0..9, no vowel) it can complete, it never    *)
(* ends by an exception, and what it returns is a string.                  *)
C12_Total ==
  /\ pc # "thrown"
  /\ pc = "call" => ENABLED Convert
  /\ Returned => \A k \in 1..Len(result) : result[k] \in Characters

C12_Witness ==
  /\ Returned
  /\ pinyin = <<"m", "1", "9">>
  /\ result = <<"m", "1">>

----------------------------------------------------------------------------
(* Vocabulary of the properties of the rewriter.                           *)

Rendered == pc = "rendered"

\* A letter an annotation may hold: a-z, u:, v in either case.
AnnotationLetter(c) ==
  c \in LowerLetters \cup UpperLetters \cup {"d", "f", "n"}

\* text[i..j] is '[' + one or more letters + one digit + ']'.
IsAnnotation(text, i, j) ==
  /\ 1 <= i /\ j <= Len(text) /\ j - i >= 3
  /\ text[i] = "[" /\ text[j] = "]"
  /\ text[j - 1] \in Digits
  /\ \A k \in (i + 1)..(j - 2) : AnnotationLetter(text[k])

\* The positions where an annotation starts, and where that one ends.
AnnotationStarts(text) ==
  {i \in 1..Len(text) : \E j \in 1..Len(text) : IsAnnotation(text, i, j)}

AnnotationEnd(text, i) == CHOOSE j \in 1..Len(text) : IsAnnotation(text, i, j)

\* What the positions of the text contribute to the rewritten text: the
\* converted annotation where one starts, nothing inside one, else the
\* character itself.
Contributions(text) ==
  LET starts == AnnotationStarts(text)
      ends == [b \in starts |-> AnnotationEnd(text, b)]
      inside == UNION {(b + 1)..ends[b] : b \in starts}
  IN [i \in 1..Len(text) |->
        IF i \in starts
        THEN <<"[">> \o numberToTone(SubSeq(text, i + 1, ends[i] - 1)) \o <<"]">>
        ELSE IF i \in inside THEN <<>>
        ELSE <<text[i]>>]

(* C13: every match of '[' + letters + one digit + ']' is replaced, where  *)
(* it stands, by '[' + numberToTone(letters + digit) + ']', and every      *)
(* character outside the matches is kept, in order ("a [a3]" becomes       *)
(* "a [a-caron]").                                                         *)
C13_RewriteInPlace ==
  Rendered => label = Concat(Contributions(meaning))

C13_Witness ==
  /\ Rendered
  /\ meaning = <<"a", " ", "[", "a", "3", "]">>
  /\ label = <<"a", " ", "[", "a_caron", "]">>

(* C14: annotations are rewritten independently and in order: wherever the *)
(* text is A + '[' + s + ']' + B with s letters plus one digit, the result *)
(* is rewrite(A) + '[' + numberToTone(s) + ']' + rewrite(B).               *)
C14_Independent ==
  Rendered =>
    \A i \in 1..Len(meaning) : \A j \in 1..Len(meaning) :
      IsAnnotation(meaning, i, j) =>
        label = formatMeaningWithPinyin(SubSeq(meaning, 1, i - 1))
                  \o <<"[">> \o numberToTone(SubSeq(meaning, i + 1, j - 1))
                  \o <<"]">>
                  \o formatMeaningWithPinyin(SubSeq(meaning, j + 1, Len(meaning)))

C14_Witness ==
  /\ Rendered
  /\ meaning = <<"[", "m", "A", "5", "]", " ", "[", "a", "3", "]">>
  /\ label = <<"[", "m", "a", "]", " ", "[", "a_caron", "]">>

(* C15: a bracketed fragment whose content is not letters followed by      *)
(* exactly one digit (two digits, characters after the digit, no digit) is *)
(* not matched and stays verbatim in the result, between the rewritten     *)
(* text before it and the rewritten text after it.                         *)
C15_MalformedVerbatim ==
  Rendered =>
    \A i \in 1..Len(meaning) : \A j \in (i + 1)..Len(meaning) :
      ( /\ meaning[i] = "[" /\ meaning[j] = "]"
        /\ \A k \in (i + 1)..(j - 1) : meaning[k] \notin {"[", "]"}
        /\ ~IsAnnotation(meaning, i, j) ) =>
        label = formatMeaningWithPinyin(SubSeq(meaning, 1, i - 1))
                  \o SubSeq(meaning, i, j)
                  \o formatMeaningWithPinyin(SubSeq(meaning, j + 1, Len(meaning)))

C15_Witness ==
  /\ Rendered
  /\ meaning = <<"[", "a", "3", "3", "]">>
  /\ label = meaning

(* C16: a text with no substring matching the annotation pattern is        *)
(* returned unchanged, character for character; so is the empty text.      *)
C16_NoMatchUnchanged ==
  (Rendered /\ AnnotationStarts(meaning) = {}) => label = meaning

C16_Witness ==
  /\ Rendered
  /\ meaning = <<"A", "[", "a", "]">>
  /\ label = meaning

(* C17: for a syllable of letters followed by a single digit, the result   *)
(* has no trailing digit, so converting the result again takes the         *)
(* no-digit path and returns it unchanged.                                 *)
C17_RefeedUnchanged ==
  ( /\ Returned /\ EndsInDigit(pinyin)
    /\ \A k \in 1..(Len(pinyin) - 1) : pinyin[k] \notin Digits ) =>
    /\ ~EndsInDigit(result)
    /\ numberToTone(result) = result

C17_Witness ==
  /\ Returned
  /\ pinyin = <<"m", "u", "4">>
  /\ result = <<"m", "u_grave">>
  /\ numberToTone(<<"m", "u_grave">>) = <<"m", "u_grave">>


----------------------------------------------------------------------------
(* Claims about the call sites at work together (SpecCalls).               *)

Stateless == {"numberToTone", "formatMeaningWithPinyin"}

\* The invocations of the two functions that have returned.
Finished == {k \in 1..Len(done) : done[k].fn \in Stateless}

\* The numberToTone activations that have computed their return value.
Leaving == {site \in Sites : calls[site].pc = "leave"}

\* C18: two calls of numberToTone, or two of formatMeaningWithPinyin, with
\* the same input return the same output, whatever conversions, rewrites
\* and character loads into characterCache happened in between.
C18_Deterministic ==
  \A i \in Finished : \A j \in Finished :
    (done[i].fn = done[j].fn /\ done[i].arg = done[j].arg)
      => done[i].out = done[j].out

\* Each function was called twice with one input, with a call on another
\* input in between and a character loaded into the cache meanwhile.
C18_Witness ==
  /\ DOMAIN characterCache # {}
  /\ \A fn \in Stateless :
       \E i \in Finished : \E j \in Finished : \E k \in Finished :
         /\ i < j /\ j < k
         /\ done[i].fn = fn /\ done[k].fn = fn
         /\ done[i].arg = done[k].arg
         /\ done[j].arg # done[i].arg

\* C19: TONE_MARKS is never mutated: in every reachable state it is the
\* object built when the module loaded, mapping each of a, e, i, o, u, u:
\* and v to exactly four variants, one per tone 1..4, the row of v equal to
\* the row of u:.
C19_ToneMarksIntact ==
  /\ toneMarks = ToneMarksObject
  /\ DOMAIN toneMarks = {"a", "e", "i", "o", "u", "u:", "v"}
  /\ \A key \in DOMAIN toneMarks :
       /\ DOMAIN toneMarks[key] = 1..4
       /\ \A tone \in 1..4 : toneMarks[key][tone] \in MarkedChars
  /\ toneMarks["v"] = toneMarks["u:"]

\* A v syllable and an a syllable have been converted, a meaning has been
\* rewritten and a character has been loaded into the cache.
C19_Witness ==
  /\ DOMAIN characterCache # {}
  /\ \E k \in Finished : done[k].out = <<"u:_acute", "a">>
  /\ \E k \in Finished : done[k].out = <<"a_caron">>
  /\ \E k \in Finished : done[k].fn = "formatMeaningWithPinyin"

\* C20: under any interleaving of the invocations at the call sites, each
\* invocation of numberToTone and of formatMeaningWithPinyin returns what
\* the function returns for its argument when it runs alone.
C20_AsAlone ==
  /\ \A site \in Leaving :
       calls[site].ret = numberToTone(calls[site].pinyin)
  /\ \A k \in Finished :
       done[k].out = IF done[k].fn = "numberToTone"
                     THEN numberToTone(done[k].arg)
                     ELSE formatMeaningWithPinyin(done[k].arg)

\* Two call sites are inside numberToTone at once, on different syllables,
\* each with its return value computed, after a rewrite has returned.
C20_Witness ==
  /\ \E a \in Leaving : \E b \in Leaving : calls[a].pinyin # calls[b].pinyin
  /\ \E k \in Finished : done[k].fn = "formatMeaningWithPinyin"


----------------------------------------------------------------------------
(* Further properties of the rewriter and the converter.                   *)

\* text[i..j] is a bracket pair with no bracket between the two.
IsBracketPair(text, i, j) ==
  /\ 1 <= i /\ i < j /\ j <= Len(text)
  /\ text[i] = "[" /\ text[j] = "]"
  /\ \A k \in (i + 1)..(j - 1) : text[k] \notin {"[", "]"}

(* C21: a bracket pair is matched exactly when what it encloses is one or  *)
(* more letters of a-z, u:, v in either case followed by exactly one       *)
(* digit: then it is rewritten to the converted, lower-cased syllable (an  *)
(* upper-case annotation too); with any other content (a space, a second   *)
(* syllable) it is left verbatim.                                          *)
C21_MatchedExactly ==
  Rendered =>
    \A i \in 1..Len(meaning) : \A j \in 1..Len(meaning) :
      IsBracketPair(meaning, i, j) =>
        LET inner == SubSeq(meaning, i + 1, j - 1)
            before == formatMeaningWithPinyin(SubSeq(meaning, 1, i - 1))
            after == formatMeaningWithPinyin(SubSeq(meaning, j + 1, Len(meaning)))
            lettersThenDigit ==
              /\ Len(inner) >= 2
              /\ inner[Len(inner)] \in Digits
              /\ \A k \in 1..(Len(inner) - 1) : AnnotationLetter(inner[k])
        IN IF lettersThenDigit
           THEN /\ label = before \o <<"[">>
                              \o numberToTone(toLowerCase(inner))
                              \o <<"]">> \o after
                /\ ~Present(numberToTone(inner), UpperLetters)
           ELSE label = before \o <<"[">> \o inner \o <<"]">> \o after

C21_Witness ==
  /\ Rendered
  /\ meaning = <<"[", "m", "A", "5", "]", "[", "a", "3", " ", "]">>
  /\ label = <<"[", "m", "a", "]", "[", "a", "3", " ", "]">>


\* The five vowels the code comment ranks above u:.
PlainVowels == {"a", "e", "o", "i", "u"}

(* C22: the mark is placed by the priority a > e > o > i > u > u:: under   *)
(* tone 1..4, a syllable holding u: or v together with one of a, e, o, i,  *)
(* u has the other vowel marked and its u:/v left as it was; u:/v is       *)
(* marked only when none of the five is present.                           *)
C22_UmlautMarkedLast ==
  (Returned /\ FourTone(pinyin)) =>
    LET w == toLowerCase(Stem(pinyin))
    IN Present(w, {"u:", "v"}) =>
         IF Present(w, PlainVowels)
         THEN /\ ~Present(result, VariantsOf("u:"))
              /\ \E p \in 1..Len(w) :
                   /\ w[p] \in PlainVowels
                   /\ result = [w EXCEPT ![p] = Expected(w[p], ToneOf(pinyin))]
         ELSE Present(result, VariantsOf("u:"))


(* C23: rewriting is idempotent: rewriting the rewritten text changes      *)
(* nothing, because the rewritten text holds no annotation any more: no    *)
(* '[' + converted + ']' contains or completes a match of the pattern.     *)
C23_RewriteIdempotent ==
  Rendered =>
    /\ formatMeaningWithPinyin(label) = label
    /\ AnnotationStarts(label) = {}
    /\ \A i \in 1..Len(label) : matchLength(label, i) = 0

C23_Witness ==
  /\ Rendered
  /\ meaning = <<"[", "a", "3", "]", "[", "m", "A", "5", "]", "a">>
  /\ label = <<"[", "a_caron", "]", "[", "m", "a", "]", "a">>
  /\ label # meaning


\* The string holds letters only.
LettersOnly(s) == \A k \in 1..Len(s) : s[k] \in LowerLetters \cup UpperLetters

\* The positions where two strings of one length differ.
DiffPositions(s, t) == {k \in 1..Len(s) : s[k] # t[k]}

(* C24: for letters followed by one tone digit 1..4, the result is as long *)
(* as the digit-stripped input and differs from the digit-stripped,        *)
(* lower-cased input in exactly one position when the syllable holds a     *)
(* recognised vowel, in none otherwise; two vowels are never marked.       *)
C24_OneMarkAtMost ==
  (Returned /\ FourTone(pinyin) /\ LettersOnly(Stem(pinyin))) =>
    LET w == toLowerCase(Stem(pinyin))
    IN /\ Len(result) = Len(Stem(pinyin))
       /\ Cardinality(DiffPositions(result, w))
            = IF Present(w, ToneMarkKeys) THEN 1 ELSE 0
       /\ Cardinality({k \in 1..Len(result) : result[k] \in MarkedChars}) <= 1

C24_Witness ==
  /\ Returned
  /\ pinyin = <<"e", "i", "4">>
  /\ result = <<"e_grave", "i">>


\* The characters of s that are in class, in order.
Only(s, class) == SelectSeq(s, LAMBDA c : c \in class)

(* C25: of an input ending in two or more digits only the last character   *)
(* is removed: the final digit alone selects the tone, the digits before   *)
(* it stay in the result as they were, and the result ends in a digit.     *)
C25_LastDigitOnly ==
  ( /\ Returned /\ Len(pinyin) >= 2
    /\ pinyin[Len(pinyin)] \in Digits /\ pinyin[Len(pinyin) - 1] \in Digits ) =>
    LET w == toLowerCase(Stem(pinyin))
        t == ToneOf(pinyin)
    IN /\ Only(result, Digits) = Only(w, Digits)
       /\ EndsInDigit(result)
       /\ result[Len(result)] = pinyin[Len(pinyin) - 1]
       /\ t \in {0, 5} => result = w
       /\ (t \in 1..4 /\ ChosenRank(w) # 0) =>
            LET p == FirstOf(w, PriorityList[ChosenRank(w)])
            IN result = [w EXCEPT ![p] = Expected(w[p], t)]
       /\ (t \in 1..4 /\ ChosenRank(w) = 0) => result = w

C25_Witness ==
  /\ Returned
  /\ pinyin = <<"a", "1", "2">>
  /\ result = <<"a_acute", "1">>


----------------------------------------------------------------------------
(* Properties of the loaders and the query shim (SpecShim).                *)

\* The last handler was a query that returned.
QueryRan == event.name = "query"

\* e is a query eq('hanzi', v).maybeSingle() on hsk_characters.
HanziQuery(e) ==
  /\ e.name = "query" /\ e.arg.table = "hsk_characters"
  /\ e.arg.filter = "eq" /\ e.arg.column = "hanzi"
  /\ e.arg.last = "maybeSingle"

\* The hanzi such a query asks for, blanks trimmed.
AskedHanzi(e) == trim(e.arg.value)[1]

(* C27: characterCache only grows and holds only characters that loaded:   *)
(* no step removes or changes an entry, every entry is the record of a     *)
(* file that has a module, a load of a file with no module returns null    *)
(* and adds nothing, and a load of a cached character returns the cached   *)
(* record itself, created_at included, whatever the time is by then.       *)
C27_CacheGrowsOnly ==
  [][ /\ \A h \in DOMAIN characterCache :
           /\ h \in DOMAIN characterCache'
           /\ characterCache'[h] = characterCache[h]
      /\ \A h \in DOMAIN characterCache' :
           /\ h \in DOMAIN hanziModules
           /\ characterCache'[h] # null
           /\ characterCache'[h].hanzi = h
      /\ HanziQuery(event') =>
           LET h == AskedHanzi(event')
           IN /\ h \in DOMAIN characterCache =>
                   event'.data = characterCache[h]
              /\ h \notin DOMAIN hanziModules =>
                   /\ event'.data = null
                   /\ h \notin DOMAIN characterCache'
    ]_vars

\* han1 was asked for again after time had passed, and the record returned
\* is the cached one, older than the clock.
C27_Witness ==
  /\ HanziQuery(event)
  /\ AskedHanzi(event) = "han1"
  /\ event.data = characterCache["han1"]
  /\ event.data.created_at < clock

(* C28: in every record loadCharacter built, pinyin is numberToTone of the *)
(* first raw pinyin entry and equals pinyin_all[0]; pinyin_all has the     *)
(* length and order of the raw array with numberToTone applied to each     *)
(* entry; with no raw pinyin, pinyin is '' and pinyin_all is empty.        *)
C28_PinyinFields ==
  \A h \in DOMAIN characterCache :
    LET raw == hanziModules[h].pinyin
        character == characterCache[h]
    IN /\ Len(character.pinyin_all) = Len(raw)
       /\ \A k \in 1..Len(raw) : character.pinyin_all[k] = numberToTone(raw[k])
       /\ Len(raw) > 0 =>
            /\ character.pinyin = numberToTone(raw[1])
            /\ character.pinyin = character.pinyin_all[1]
       /\ Len(raw) = 0 =>
            /\ character.pinyin = <<>>
            /\ character.pinyin_all = <<>>

\* A character with two pronunciations and one with none are loaded.
C28_Witness ==
  /\ {"han1", "han4"} \subseteq DOMAIN characterCache
  /\ characterCache["han1"].pinyin_all = << <<"a_caron">>, <<"u:_acute", "a">> >>
  /\ characterCache["han4"].pinyin = <<>>

\* The index entries whose file is there.
Loadable == SelectSeq(indexData, LAMBDA entry : hasModule(entry.detail_file))

\* The list a query filters, by the cache the query left.
FilteredBy(q) ==
  LET entries ==
        IF q.filter = "none" THEN Loadable
        ELSE IF q.column = "hsk_level"
        THEN SelectSeq(Loadable, LAMBDA entry : entry.hsk_level = q.value)
        ELSE SelectSeq(Loadable,
                       LAMBDA entry : characterCache[entry.hanzi][q.column] = q.value)
  IN [k \in 1..Len(entries) |-> characterCache[entries[k].hanzi]]

\* out holds the elements of list, each once, in some order.
IsPermutation(out, list) ==
  /\ Len(out) = Len(list)
  /\ \E p \in Reorderings(Len(list)) : out = [k \in 1..Len(list) |-> list[p[k]]]

\* No element of out stands before one that is less (greater, when
\* descending) in the column.
SortedBy(out, column, ascending) ==
  \A i \in 1..Len(out) : \A j \in (i + 1)..Len(out) :
    IF ascending THEN ~lessThan(column, out[j], out[i])
    ELSE ~lessThan(column, out[i], out[j])

\* The column is null in no element of the list.
NeverNull(list, column) ==
  column = "radical" => \A k \in 1..Len(list) : list[k].radical # none

\* from() throws for every table but hsk_characters, whose queries resolve
\* with error null.
ThrowsOrResolves ==
  QueryRan =>
    /\ event.thrown <=> event.arg.table # "hsk_characters"
    /\ event.error = none

\* eq('hanzi', v).maybeSingle() yields the character whose index entry is
\* the trimmed v, null when there is no such character.
MaybeSingleByHanzi ==
  HanziQuery(event) =>
    LET v == trim(event.arg.value)
    IN IF \E k \in 1..Len(Loadable) : <<Loadable[k].hanzi>> = v
       THEN /\ event.data = characterCache[v[1]]
            /\ event.data.hanzi = v[1]
       ELSE event.data = null

\* The last handler was a query ending in order() that returned.
OrderRan == QueryRan /\ ~event.thrown /\ event.arg.last = "order"

(* C29: from() with a table other than hsk_characters throws and every     *)
(* query on hsk_characters resolves with error null;                       *)
(* eq('hanzi', v).maybeSingle() yields the character of the trimmed v or   *)
(* null; order() yields a permutation of the filtered list sorted by the   *)
(* given column, ascending unless ascending: false is passed.              *)
C29_ShimContract ==
  /\ ThrowsOrResolves
  /\ MaybeSingleByHanzi
  /\ OrderRan =>
       /\ IsPermutation(event.data, FilteredBy(event.arg))
       /\ SortedBy(event.data, event.arg.orderColumn,
                   event.arg.options # <<FALSE>>)

(* C29 amended: as above, but order() sorts only a list in which the       *)
(* column is never null; where it is null in some element the result is a  *)
(* permutation of the list in no particular order.                         *)
C29_ShimContractComparable ==
  /\ ThrowsOrResolves
  /\ MaybeSingleByHanzi
  /\ OrderRan =>
       /\ IsPermutation(event.data, FilteredBy(event.arg))
       /\ NeverNull(event.data, event.arg.orderColumn) =>
            SortedBy(event.data, event.arg.orderColumn,
                     event.arg.options # <<FALSE>>)

\* All characters were ordered by pinyin, descending: the greatest pinyin
\* comes first, the empty one last.
C29_Witness ==
  /\ OrderRan
  /\ event.arg.filter = "none"
  /\ event.arg.orderColumn = "pinyin"
  /\ event.arg.options = <<FALSE>>
  /\ Len(event.data) = 3
  /\ event.data[1].hanzi = "han2"
  /\ event.data[3].hanzi = "han4"

----------------------------------------------------------------------------
(* Properties of App and CharacterLookup (SpecApp).                        *)

(* C26: a character is selected only while the lookup is shown.           *)
(* handleNavigation shows the view asked for and, unless that is the       *)
(* lookup, leaves no character selected; handleCharacterClick leaves the   *)
(* clicked character selected and the lookup shown; both leave the drawer  *)
(* closed.                                                                 *)
C26_SelectedOnlyInLookup ==
  /\ selectedCharacter # none => currentView = "lookup"
  /\ event.name = "handleNavigation" =>
       /\ currentView = event.arg
       /\ ~drawerOpen
       /\ event.arg # "lookup" => selectedCharacter = none
  /\ event.name = "handleCharacterClick" =>
       /\ selectedCharacter = <<event.arg>>
       /\ currentView = "lookup"
       /\ ~drawerOpen

\* A character was selected, and handleNavigation went to the practice
\* view and cleared it.
C26_Witness ==
  /\ event.name = "handleNavigation"
  /\ event.arg = "practice"
  /\ event.data # none
  /\ selectedCharacter = none
  /\ ~drawerOpen

\* The elements of s at the indexes in S, in order.
Pick(s, S) ==
  LET F[k \in 0..Len(s)] ==
        IF k = 0 THEN <<>>
        ELSE IF k \in S THEN Append(F[k - 1], s[k]) ELSE F[k - 1]
  IN F[Len(s)]

\* The hanzi of the characters of a list.
HanziList(list) == [k \in 1..Len(list) |-> list[k].hanzi]

\* A search of value has just completed.
SearchCompleted == event.name = "handleSearch" /\ event.arg # <<>>

(* C30: when a search of a non-empty value completes, the CJK characters   *)
(* of the value are split between the found list and the missing list,     *)
(* each character in one of them and each list in input order, so the two  *)
(* lengths add up to the number of CJK characters; loading is false; and   *)
(* error is null exactly when there was a CJK character and none is        *)
(* missing.                                                                *)
C30_SearchPartitions ==
  SearchCompleted =>
    LET cjk == SelectSeq(event.arg, IsCJK)
    IN /\ \E S \in SUBSET (1..Len(cjk)) :
            /\ HanziList(characters) = Pick(cjk, S)
            /\ notFoundChars = Pick(cjk, (1..Len(cjk)) \ S)
       /\ Len(characters) + Len(notFoundChars) = Len(cjk)
       /\ loading = FALSE
       /\ error = none <=> (Len(cjk) >= 1 /\ notFoundChars = <<>>)

\* A search of two CJK characters among others completed with one found
\* and one missing, and an error that names the missing one.
C30_Witness ==
  /\ SearchCompleted
  /\ event.arg = <<"han1", "x", "han3">>
  /\ HanziList(characters) = <<"han1">>
  /\ notFoundChars = <<"han3">>
  /\ error = <<"Some characters not found: ", <<"han3">>>>
  /\ ~loading

====
